---- MODULE Spec2Model ----
(***************************************************************************)
(* Scoped context store of fastapi-request-context.                        *)
(*                                                                         *)
(* The default adapter (ContextVarsAdapter) keeps one module-level         *)
(* ContextVar whose value is None or a reference to a dict.  Every logical *)
(* task (asyncio task) runs in its own contextvars.Context: a task created *)
(* by another task starts with a shallow copy of its creator's Context, so *)
(* it starts with the same dict OBJECT.  Dicts are therefore modelled as   *)
(* objects on a heap and the ContextVar as a per-task reference.           *)
(***************************************************************************)
EXTENDS Integers, Sequences, FiniteSets, TLC

(* ------------------------------ universe ------------------------------ *)

\* Logical tasks.  "t1" is running at start-up, the others are created later.
TaskOrder == <<"t1", "t2">>

Tasks == {TaskOrder[i] : i \in 1 .. Len(TaskOrder)}

\* Field names: one standard field and one application-defined field.
Keys == {"request_id", "user_id"}

\* The values a task's code passes to set_value / enter_context.  They are
\* tagged by the task that supplies them, so that a read can be traced back
\* to its writer.
ValsOf(t) == IF t = "t1" THEN {"a1", "a2"} ELSE {"b1", "b2"}

\* One value of each task, for the runs with a small alphabet.
FirstVal(t) == IF t = "t1" THEN "a1" ELSE "b1"

\* The one field the tasks write when several of them interleave.
ConcKeys == {"user_id"}

Vals == UNION {ValsOf(t) : t \in Tasks}

\* Deepest nesting of scopes opened by a task that interleaves with others.
MaxDepthConc == 1

\* Deepest nesting of scopes opened by the task that keeps the dicts it reads.
MaxDepth == 2

\* Deepest nesting of scopes opened by the task that runs alone.
MaxDepthSeq == 3

\* Python's None, as returned by dict.get for a missing key.
None == "None"

\* A Python dict with keys among Keys: a function on a subset of Keys.
Dicts == UNION {[D -> Vals] : D \in SUBSET Keys}

DictsOver(V) == UNION {[D -> V] : D \in SUBSET Keys}

DictsOf(t) == DictsOver(ValsOf(t))

EmptyDict == [k \in {} |-> None]

\* Field names at a hand-off to a queued unit: the standard fields and the
\* application-defined ones, in the order a carrier lists them.
KeyOrder == <<"correlation_id", "request_id", "task_id", "user_id">>

HandoffKeys == {KeyOrder[i] : i \in 1 .. Len(KeyOrder)}

\* Task ids of the messages the senders create, in creation order.
MsgOrder == <<"m1", "m2", "m3", "m4">>

\* Task id of a message that comes from a sender without the middleware.
ForeignId == "m0"

\* Messages one run hands off.
MaxSent == 1

\* Messages the one sender hands off from its request scope.
MaxHandoffs == 2

\* Requests one run of the request middleware serves.
MaxRequests == 2

\* Messages the wrapped app sends for one request.
MaxMsgs == 1

\* Inbound headers of one request.
MaxHeaders == 1

\* Context objects the context-logging adapter has on the library's stack.
MaxDepthCL == 1

\* Items one iteration of a wrapped async iterator yields.
MaxSteps == 2

\* Heap references.  NoRef is the ContextVar's default (None).
NoRef == 0

Refs == 1 .. (Cardinality(Tasks) + 2)

(* ------------------------------- state -------------------------------- *)

VARIABLES
    cvar,      \* cvar[t]: value of _context_var in task t's Context (a ref or NoRef)
    heap,      \* heap[r]: the dict object r; DOMAIN heap = the live objects
    started,   \* the tasks that have been created
    snap,      \* the dict get_all returned that application code still holds (or NoRef)
    exc,       \* exc[t]: the failure propagating out of t's scopes, if any
    scopes,    \* history: scopes[t] = the scopes t opened and has not closed
    base,      \* history: base[t] = t was created inside an active scope
    ever,      \* history: ever[t] = a scope was entered in t or before t was created
    closed,    \* history: closed[t] = t's last call closed a scope in which it had set a field
    cur,       \* cur[t]: the middleware's _current_context holds the adapter in t's Context
    queue,     \* the messages handed off and not yet taken by a receiving unit
    nsent,     \* the number of messages handed off so far
    unit,      \* unit[t]: the message t is executing, between pre_execute and post_save
    served,    \* history: served[t] = t has completed a unit
    binding,   \* the adapter set_adapter bound process-wide
    mw,        \* the request middleware object the application holds
    err,       \* what the last constructor call raised, if anything
    req,       \* the request __call__ is serving, and what it did for it
    gen,       \* the ids the two generators have produced so far
    latest,    \* history: the request middleware object constructed most recently
    cl,        \* the ContextLoggingAdapter object: its _context_manager, and history
    lib,       \* lib[t]: context_logging's stack of contexts in task t; lib[t][1] is the root
    stray,     \* history: stray[t] = post_save has returned in t while t ran no unit
    wrap,      \* the wrapper aiter_with_logging_context returned, if any
    it         \* the iteration of that wrapper's async iterator

vars == <<cvar, heap, started, snap, exc, scopes, base, ever, closed,
          cur, queue, nsent, unit, served,
          binding, mw, err, req, gen, latest, cl, lib, stray, wrap, it>>

\* The state of the task-queue middleware and of the queue.
mwvars == <<cur, queue, nsent, unit, served>>

\* The state of the request middleware and of its set-up.
rqvars == <<binding, mw, err, req, gen, latest>>

\* The state of the context-logging adapter, of closing calls, and of the
\* wrapped async iterator.
clvars == <<cl, lib, stray, wrap, it>>

\* The state of the adapter and the history kept about it.
avars == <<cvar, heap, started, snap, exc, scopes, base, ever, closed>>

(* ------------------------- heap and Python dict ------------------------ *)

\* dict.get(key): the value, or None when the key is missing.
DictGet(d, k) == IF k \in DOMAIN d THEN d[k] ELSE None

\* d[key] = value
DictSet(d, k, v) == (k :> v) @@ d

\* del d[key]
DictDel(d, k) == [x \in DOMAIN d \ {k} |-> d[x]]

\* A reference no live object uses: what allocating a new dict yields.
NewRef(h) == CHOOSE r \in Refs \ DOMAIN h : \A q \in Refs \ DOMAIN h : r <= q

\* The places that hold a reference, in a fixed order.
Slots(cv, sn) == [i \in 1 .. Len(TaskOrder) |-> cv[TaskOrder[i]]] \o <<sn>>

\* Object identities carry no meaning beyond equality: references are renamed
\* to the order in which the slots first mention them.
Rename(cv, sn, r) ==
    LET S == Slots(cv, sn)
        first == CHOOSE i \in 1 .. Len(S) : S[i] = r /\ \A j \in 1 .. Len(S) : S[j] = r => i <= j
    IN  IF r = NoRef THEN NoRef
        ELSE Cardinality({S[j] : j \in 1 .. first} \ {NoRef})

\* Reference counting: objects nothing refers to are freed.  The result is
\* the store after the call: [heap, cvar, snap].
Collect(h, cv, sn) ==
    LET S == Slots(cv, sn)
        live == {S[i] : i \in 1 .. Len(S)} \ {NoRef}
        new == {Rename(cv, sn, r) : r \in live}
    IN  [heap |-> [n \in new |-> h[CHOOSE r \in live : Rename(cv, sn, r) = n]],
         cvar |-> [t \in Tasks |-> Rename(cv, sn, cv[t])],
         snap |-> Rename(cv, sn, sn)]

(* ------------------------- ContextVarsAdapter -------------------------- *)

\* (variant) set_value that keeps the value a key already has (setdefault).
set_value_keep(h, c, k, v) ==
    IF c = NoRef
    THEN [heap |-> h, out |-> "TypeError"]
    ELSE [heap |-> [h EXCEPT ![c] = IF k \in DOMAIN h[c] THEN h[c] ELSE DictSet(h[c], k, v)],
          out |-> "ok"]

\* set_value: context = _context_var.get(); context[key] = value.
\* With the default None the item assignment raises TypeError.
set_value(h, c, k, v) ==
    IF c = NoRef
    THEN [heap |-> h, out |-> "TypeError"]
    ELSE [heap |-> [h EXCEPT ![c] = DictSet(h[c], k, v)], out |-> "ok"]

\* get_value: return _context_var.get().get(key).
\* With the default None the attribute lookup raises AttributeError.
get_value(h, c, k) ==
    IF c = NoRef THEN "AttributeError" ELSE DictGet(h[c], k)

\* (variant) get_all that returns the stored dict itself, not a copy.
get_all_alias(h, c) ==
    IF c = NoRef
    THEN [heap |-> h, ref |-> NoRef, out |-> "TypeError"]
    ELSE [heap |-> h, ref |-> c, out |-> "ok"]

\* (variant) get_all that returns a new dict without the items.
get_all_empty(h, c) ==
    IF c = NoRef
    THEN [heap |-> h, ref |-> NoRef, out |-> "TypeError"]
    ELSE LET r == NewRef(h)
         IN  [heap |-> (r :> EmptyDict) @@ h, ref |-> r, out |-> "ok"]

\* get_all: return dict(_context_var.get()): a new dict object with the same
\* items.  dict(None) raises TypeError.
get_all(h, c) ==
    IF c = NoRef
    THEN [heap |-> h, ref |-> NoRef, out |-> "TypeError"]
    ELSE LET r == NewRef(h)
         IN  [heap |-> (r :> h[c]) @@ h, ref |-> r, out |-> "ok"]

\* (variant) enter_context on a plain module global instead of a ContextVar:
\* every task sees the new dict.
enter_context_global(h, cv, t, initial) ==
    LET r == NewRef(h)
    IN  [heap |-> (r :> initial) @@ h, cvar |-> [u \in Tasks |-> r]]

\* (variant) enter_context that updates the dict the ContextVar holds, when
\* it holds one, instead of binding a new dict.
enter_context_update(h, cv, t, initial) ==
    LET r == NewRef(h)
    IN  IF cv[t] = NoRef
        THEN [heap |-> (r :> initial) @@ h, cvar |-> [cv EXCEPT ![t] = r]]
        ELSE [heap |-> [h EXCEPT ![cv[t]] = initial @@ @], cvar |-> cv]

\* enter_context: _context_var.set(dict(initial_values)).
enter_context(h, cv, t, initial) ==
    LET r == NewRef(h)
    IN  [heap |-> (r :> initial) @@ h, cvar |-> [cv EXCEPT ![t] = r]]

\* (variant) enter_context that binds the caller's dict itself.
enter_context_from_alias(h, cv, t, ref) ==
    [heap |-> h, cvar |-> [cv EXCEPT ![t] = ref]]

\* enter_context called with the dict object ref as initial_values:
\* dict(initial_values) is a new object with that dict's items.
enter_context_from(h, cv, t, ref) == enter_context(h, cv, t, h[ref])

\* (variant) exit_context that empties the dict the ContextVar holds
\* (_context_var.get().clear()).
exit_context_clear(h, cv, t) ==
    IF cv[t] = NoRef
    THEN [heap |-> h, cvar |-> cv]
    ELSE [heap |-> [h EXCEPT ![cv[t]] = EmptyDict], cvar |-> cv]

\* (variant) exit_context that leaves the ContextVar as it is.
exit_context_keep(h, cv, t) == [heap |-> h, cvar |-> cv]

\* exit_context: _context_var.set({}).
exit_context(h, cv, t) ==
    LET r == NewRef(h)
    IN  [heap |-> (r :> EmptyDict) @@ h, cvar |-> [cv EXCEPT ![t] = r]]

(* ------------------------- failure enrichment -------------------------- *)

\* The failure a scope body raises: ValueError("test error").
Msg == "test error"

\* No failure is propagating.  The fields after marked are history.
NoExc ==
    [live |-> FALSE, args |-> <<>>, marked |-> FALSE,
     raisedMarked |-> FALSE,   \* the marker when the failure was raised
     depthAtRaise |-> 0,       \* the scopes open when it was raised
     allHeld |-> FALSE,        \* set_value was called in each of them
     left |-> 0,               \* the scopes it has left so far
     inner |-> EmptyDict,      \* the final map of the first scope it left
     innerClean |-> FALSE,     \* that scope had only set calls in its body
     innerExp |-> EmptyDict,   \* its initial map overridden by its sets
     last |-> EmptyDict,       \* the final map of the scope it left last
     argsBefore |-> <<>>,      \* its args before it left that scope
     markedBefore |-> FALSE]   \* its marker before it left that scope

\* (variant) enrichment that ignores the marker.
enrich_always(e, final) ==
    IF final # EmptyDict
    THEN [e EXCEPT !.args = Append(@, final), !.marked = TRUE]
    ELSE e

\* (variant) enrichment that sets the marker whatever the snapshot holds.
enrich_mark_empty(e, final) ==
    IF ~e.marked
    THEN [e EXCEPT !.args = IF final # EmptyDict THEN Append(@, final) ELSE @,
                   !.marked = TRUE]
    ELSE e

\* (variant) exit that swallows the failure once it has enriched it
\* (__exit__ returning True).
enrich_suppress(e, final) ==
    IF final # EmptyDict /\ ~e.marked
    THEN [e EXCEPT !.args = Append(@, final), !.marked = TRUE, !.live = FALSE]
    ELSE e

\* Scope exit with the body's failure e and the scope's final snapshot:
\* attach the snapshot and mark the failure, unless the snapshot is empty or
\* the failure is already marked (__context_logging__).
enrich(e, final) ==
    IF final # EmptyDict /\ ~e.marked
    THEN [e EXCEPT !.args = Append(@, final), !.marked = TRUE]
    ELSE e

(* --------------------------- observations ----------------------------- *)

\* The ContextVar holds no dict.
NoMap == [has |-> FALSE, map |-> EmptyDict]

\* What get_all returns to task t in store (h, cv), as a value.
ViewOf(h, cv, t) ==
    IF cv[t] = NoRef THEN NoMap ELSE [has |-> TRUE, map |-> h[cv[t]]]

View(t) == ViewOf(heap, cvar, t)

\* What get_value and get_all return, or raise, to task t in store (h, cv).
Reads(h, cv, t) ==
    LET g == get_all(h, cv[t])
    IN  [get |-> [k \in Keys |-> get_value(h, cv[t], k)],
         out |-> g.out,
         all |-> IF g.out = "ok" THEN g.heap[g.ref] ELSE EmptyDict]

Depth(t) == Len(scopes[t])

Top(t) == scopes[t][Depth(t)]

Running(t) == t \in started /\ ~exc[t].live

(* ------------------- hand-off to a queued unit ------------------------ *)

\* A message's label X-Request-Context: absent, the empty string, or a JSON
\* object, written as the list of its key/value members.
NoLabel == [kind |-> "missing", doc |-> <<>>]

EmptyLabel == [kind |-> "empty", doc |-> <<>>]

JsonLabel(doc) == [kind |-> "json", doc |-> doc]

\* (variant) serialisation that leaves out the last member.
dumps_short(d) ==
    LET ks == SelectSeq(KeyOrder, LAMBDA k : k \in DOMAIN d)
    IN  [i \in 1 .. (IF Len(ks) = 0 THEN 0 ELSE Len(ks) - 1) |-> <<ks[i], d[ks[i]]>>]

\* json.dumps of a dict: its members, one after the other.
dumps(d) ==
    LET ks == SelectSeq(KeyOrder, LAMBDA k : k \in DOMAIN d)
    IN  [i \in 1 .. Len(ks) |-> <<ks[i], d[ks[i]]>>]

\* json.loads of an object: a dict with the members' keys; of two members
\* with one key the later one counts.
loads(doc) ==
    [k \in {doc[i][1] : i \in DOMAIN doc} |->
        doc[CHOOSE i \in DOMAIN doc :
               doc[i][1] = k /\ \A j \in DOMAIN doc : doc[j][1] = k => j <= i][2]]

\* (variant) encode that filters nothing.
encode_all(m) == JsonLabel(dumps(m))

\* encode: the snapshot without request_id, serialised.
encode(m) == JsonLabel(dumps(DictDel(m, "request_id")))

\* (variant) decode that reads a label only when it holds members: a missing
\* or empty carrier is an error.
decode_strict(label) ==
    IF label.kind = "json" THEN [out |-> "ok", map |-> loads(label.doc)]
    ELSE [out |-> "ValueError", map |-> EmptyDict]

\* decode: the map a carrier holds; a missing or empty carrier is the empty map.
decode(label) ==
    IF label.kind = "json" THEN [out |-> "ok", map |-> loads(label.doc)]
    ELSE [out |-> "ok", map |-> EmptyDict]

\* A message: its task id and its label.  origin is history: the snapshot the
\* sender took at the hand-off.
Message(id, label, origin) == [task_id |-> id, label |-> label, origin |-> origin]

\* No message is being executed.
NoUnit == Message("", NoLabel, EmptyDict)

\* Messages that arrive from senders that attached no context.
Foreign == {Message(ForeignId, NoLabel, EmptyDict), Message(ForeignId, EmptyLabel, EmptyDict)}

\* pre_send(message) in a task whose ContextVar is c: the snapshot is taken
\* with get_all and its carrier attached to the message.
pre_send(h, c, id) ==
    LET g == get_all(h, c)
    IN  IF g.out = "ok"
        THEN [out |-> "ok", msg |-> Message(id, encode(g.heap[g.ref]), g.heap[g.ref])]
        ELSE [out |-> g.out, msg |-> NoUnit]

\* (variant) initial map in which a task_id of the carrier wins.
scope_initial_carrier(msg) ==
    decode(msg.label).map @@ ("task_id" :> msg.task_id)

\* The map pre_execute opens the unit's scope with: the decoded carrier with
\* task_id set to the message's own id.
scope_initial(msg) ==
    DictSet(decode(msg.label).map, "task_id", msg.task_id)

\* (variant) post_save that forgets the adapter without closing its scope.
post_save_forget(h, cv, cu, t) ==
    [heap |-> h, cvar |-> cv, cur |-> [cu EXCEPT ![t] = FALSE]]

\* (variant) post_save whose exit clears the variable of every task.
post_save_all(h, cv, cu, t) ==
    LET r == NewRef(h)
    IN  IF cu[t]
        THEN [heap |-> (r :> EmptyDict) @@ h, cvar |-> [u \in Tasks |-> r],
              cur |-> [cu EXCEPT ![t] = FALSE]]
        ELSE [heap |-> h, cvar |-> cv, cur |-> cu]

\* post_save: the adapter _current_context holds, if any, is exited and
\* _current_context is set to None.
post_save(h, cv, cu, t) ==
    IF cu[t]
    THEN LET x == exit_context(h, cv, t)
         IN  [heap |-> x.heap, cvar |-> x.cvar, cur |-> [cu EXCEPT ![t] = FALSE]]
    ELSE [heap |-> h, cvar |-> cv, cur |-> cu]

\* What get_value returns to task t for every hand-off field, and get_all.
HandoffReads(h, cv, t) ==
    [get |-> [k \in HandoffKeys |-> get_value(h, cv[t], k)],
     all |-> ViewOf(h, cv, t)]

(* ------------------------- request middleware ------------------------ *)

\* Python bytes: the text they encode, tagged.
Bytes(text) == [bytes |-> text]

\* str.encode() and bytes.decode().
str_encode(text) == Bytes(text)

bytes_decode(b) == b.bytes

\* str.lower() on the header names in use.
Lower(name) ==
    CASE name = "X-Correlation-Id" -> "x-correlation-id"
      [] name = "X-Request-Id" -> "x-request-id"
      [] OTHER -> name

\* bytes.lower()
bytes_lower(b) == Bytes(Lower(b.bytes))

\* The ids the request-id and the correlation-id generator return, in order.
ReqIds == <<"r1", "r2", "r3", "r4">>

CorIds == <<"c1", "c2", "c3", "c4">>

\* Python truthiness of an optional string.
Falsy(v) == v \in {None, ""}

\* Header names and values of inbound requests.
HeaderNames == {"X-Correlation-Id", "x-correlation-id", "x-request-id"}

HeaderVals == {"h1", ""}

HeaderPairs == {<<Bytes(n), Bytes(v)>> : n \in HeaderNames, v \in HeaderVals}

HeaderLists == UNION {[1 .. n -> HeaderPairs] : n \in 0 .. MaxHeaders}

\* ASGI scopes: requests with their headers, and the lifespan scope.
Scopes ==
    {[type |-> "http", headers |-> hs] : hs \in HeaderLists}
        \cup {[type |-> "lifespan", headers |-> <<>>]}

\* The messages a wrapped app sends for a scope of the given type.
AppMessages(type) ==
    IF type = "http"
    THEN {[type |-> "http.response.start", status |-> "200",
           headers |-> <<<<Bytes("content-type"), Bytes("text")>>>>],
          [type |-> "http.response.start", status |-> "200"],
          [type |-> "http.response.body", body |-> "ok"]}
    ELSE {[type |-> "lifespan.startup.complete"]}

\* RequestContextConfig: the adapter, add_response_headers, and the settings
\* every instance here shares.
Config(adapter, add) ==
    [context_adapter |-> adapter,
     add_response_headers |-> add,
     scope_types |-> {"http"},
     request_id_header |-> "X-Request-Id",
     correlation_id_header |-> "X-Correlation-Id"]

\* Values of context_adapter: identifier strings and an adapter instance.
AdapterConfigs ==
    {[str |-> TRUE, val |-> "contextvars"],
     [str |-> TRUE, val |-> "context_logging"],
     [str |-> TRUE, val |-> "invalid"],
     [str |-> FALSE, val |-> "custom"]}

\* The text of the ImportError, in two pieces.
ImportMsg ==
    <<"context-logging is required",
      " for ContextLoggingAdapter. Install with: pip install fastapi-request-context[context-logging]">>

\* No adapter object.
NoAdapter == [cls |-> "none", obj |-> "none", cm |-> None]

\* (variant) constructor that defers the import to the first use.
ContextLoggingAdapter_lazy(importable) ==
    [out |-> "ok", msg |-> <<>>,
     adapter |-> [cls |-> "context_logging", obj |-> "new", cm |-> None]]

\* ContextLoggingAdapter.__init__: the import is tried at construction.
ContextLoggingAdapter_init(importable) ==
    IF importable
    THEN [out |-> "ok", msg |-> <<>>,
          adapter |-> [cls |-> "context_logging", obj |-> "new", cm |-> None]]
    ELSE [out |-> "ImportError", msg |-> ImportMsg, adapter |-> NoAdapter]

\* (variant) _get_adapter that falls back to the default adapter.
get_adapter_default(adapter_config, importable) ==
    IF adapter_config.str
    THEN IF adapter_config.val = "context_logging"
         THEN ContextLoggingAdapter_init(importable)
         ELSE [out |-> "ok", msg |-> <<>>,
               adapter |-> [cls |-> "contextvars", obj |-> "new", cm |-> None]]
    ELSE [out |-> "ok", msg |-> <<>>,
          adapter |-> [cls |-> adapter_config.val, obj |-> "given", cm |-> None]]

\* _get_adapter: an instance for an identifier string, the instance itself
\* otherwise.
get_adapter(adapter_config, importable) ==
    IF adapter_config.str
    THEN IF adapter_config.val = "contextvars"
         THEN [out |-> "ok", msg |-> <<>>,
               adapter |-> [cls |-> "contextvars", obj |-> "new", cm |-> None]]
         ELSE IF adapter_config.val = "context_logging"
         THEN ContextLoggingAdapter_init(importable)
         ELSE [out |-> "ValueError", msg |-> <<"Unknown adapter">>, adapter |-> NoAdapter]
    ELSE [out |-> "ok", msg |-> <<>>,
          adapter |-> [cls |-> adapter_config.val, obj |-> "given", cm |-> None]]

\* No middleware object.
NoMw == [built |-> FALSE, config |-> Config([str |-> TRUE, val |-> "none"], FALSE),
         adapter |-> NoAdapter]

\* RequestContextMiddleware.__init__: the object and the process-wide binding
\* after the call, or what it raised.
init(config, importable, bnd) ==
    LET a == get_adapter(config.context_adapter, importable)
    IN  IF a.out = "ok"
        THEN [out |-> "ok", mw |-> [built |-> TRUE, config |-> config, adapter |-> a.adapter],
              binding |-> a.adapter]
        ELSE [out |-> a.out, mw |-> NoMw, binding |-> bnd]

\* _get_header_value: the value of the first header whose lower-cased name
\* is the lower-cased header_name, or None.
get_header_value(scope, header_name) ==
    LET hs == scope.headers
        header_name_lower == str_encode(Lower(header_name))
        hit == {i \in DOMAIN hs : bytes_lower(hs[i][1]) = header_name_lower}
    IN  IF hit = {} THEN None
        ELSE bytes_decode(hs[CHOOSE i \in hit : \A j \in hit : i <= j][2])

\* (variant) identifiers taken from the inbound headers when they are there,
\* the request id too.
identifiers_trusting(config, scope, g) ==
    LET rh == get_header_value(scope, config.request_id_header)
        ch == get_header_value(scope, config.correlation_id_header)
    IN  [request_id |-> IF Falsy(rh) THEN ReqIds[g.rid + 1] ELSE rh,
         correlation_id |-> IF Falsy(ch) THEN CorIds[g.cid + 1] ELSE ch,
         gen |-> [rid |-> g.rid + (IF Falsy(rh) THEN 1 ELSE 0),
                  cid |-> g.cid + (IF Falsy(ch) THEN 1 ELSE 0)]]

\* __call__, lines 113-123: request_id is generated; correlation_id is the
\* header's value or, when that is None or empty, generated.
identifiers(config, scope, g) ==
    LET ch == get_header_value(scope, config.correlation_id_header)
    IN  [request_id |-> ReqIds[g.rid + 1],
         correlation_id |-> IF Falsy(ch) THEN CorIds[g.cid + 1] ELSE ch,
         gen |-> [rid |-> g.rid + 1, cid |-> g.cid + (IF Falsy(ch) THEN 1 ELSE 0)]]

\* (variant) __call__ that looks the process-wide adapter up.
call_adapter_bound(m, bnd) == bnd

\* The adapter __call__ enters and exits: self._adapter.
call_adapter(m, bnd) == m.adapter

\* (variant) the scope types are not looked at.
configured_any(config, scope) == TRUE

\* __call__, line 109: the scope's type is one of the configured ones.
configured(config, scope) == scope.type \in config.scope_types

\* The map __call__ enters the scope with.
initial_context(request_id, correlation_id) ==
    [k \in {"request_id", "correlation_id"} |->
        IF k = "request_id" THEN request_id ELSE correlation_id]

\* (variant) send wrapper that puts the two headers in place of the app's.
send_with_headers_only(config, request_id, correlation_id, message) ==
    IF message.type = "http.response.start"
    THEN ("headers" :> <<<<str_encode(Lower(config.request_id_header)), str_encode(request_id)>>,
                          <<str_encode(Lower(config.correlation_id_header)), str_encode(correlation_id)>>>>)
            @@ message
    ELSE message

\* send_with_headers: the message handed to send for a message of the app.
send_with_headers(config, request_id, correlation_id, message) ==
    IF message.type = "http.response.start"
    THEN LET headers == (IF "headers" \in DOMAIN message THEN message.headers ELSE <<>>)
                          \o <<<<str_encode(Lower(config.request_id_header)), str_encode(request_id)>>,
                                <<str_encode(Lower(config.correlation_id_header)), str_encode(correlation_id)>>>>
         IN  ("headers" :> headers) @@ message
    ELSE message

\* (variant) clean-up in an except Exception clause: a cancellation, which is
\* not an Exception, passes it by.
cleanup_except(how) == how # "cancel"

\* The finally clause of __call__ runs however the app ends.
cleanup(how) == TRUE

\* The ways the wrapped app ends.
Ends == {"return", "raise", "cancel"}

\* No request is being served.  n counts the requests served before.
NoScope == [type |-> "none", headers |-> <<>>]

Idle(n) ==
    [pc |-> "idle", n |-> n, scope |-> NoScope, processed |-> FALSE, wrapped |-> FALSE,
     request_id |-> None, correlation_id |-> None,
     genBefore |-> [rid |-> 0, cid |-> 0],   \* history: the generators' state at the call
     fwd |-> <<>>,                           \* history: the app's messages and what send got
     enters |-> 0, exits |-> 0,              \* history: enter_context and exit_context calls
     on |-> NoAdapter, off |-> NoAdapter,    \* history: the adapters they were called on
     how |-> "none"]                         \* history: the way the app ended

(* ----------------------- ContextLoggingAdapter ------------------------ *)

\* The adapter's _context_manager is the position, on the stack of the task
\* that entered it, of the Context object it holds; 0 is None.  The library
\* is taken to keep its stack in a ContextVar, so one per task, to push a
\* Context on __enter__, to pop it on __exit__, and to write
\* current_context[key] into the topmost context of the calling task.

\* enter_context: self._context_manager = Context(**initial_values), entered.
cl_enter_context(c, l, initial) ==
    [out |-> "ok", cm |-> Len(l) + 1, lib |-> Append(l, initial)]

\* set_value: current_context[key] = value.
cl_set_value(l, k, v) == [l EXCEPT ![Len(l)] = DictSet(@, k, v)]

\* get_all: dict(current_context), the fields of the contexts on the stack,
\* an inner context's value hiding an outer one's.
cl_get_all(l) ==
    [k \in UNION {DOMAIN l[i] : i \in DOMAIN l} |->
        l[CHOOSE i \in DOMAIN l :
             k \in DOMAIN l[i] /\ \A j \in DOMAIN l : k \in DOMAIN l[j] => j <= i][k]]

\* get_value: current_context.get(key).
cl_get_value(l, k) == DictGet(cl_get_all(l), k)

\* (variant) exit_context that leaves the clean-up to the library.
cl_exit_context_noop(c, l) == [out |-> "ok", cm |-> c, lib |-> l]

\* (variant) exit_context without the None check: None has no __exit__.
cl_exit_context_unguarded(c, l) ==
    IF c # 0
    THEN [out |-> "ok", cm |-> 0, lib |-> SubSeq(l, 1, Len(l) - 1)]
    ELSE [out |-> "AttributeError", cm |-> c, lib |-> l]

\* exit_context when the Context held was entered by another task: what its
\* __exit__ does in the calling task is the library's business.  Either it
\* raises (a ContextVar token of another Context) and the adapter keeps the
\* Context, or it unwinds the calling task's own stack by one.
cl_exit_context_foreign(c, l) ==
    {[out |-> "ValueError", cm |-> c, lib |-> l],
     [out |-> "ok", cm |-> 0, lib |-> IF Len(l) > 1 THEN SubSeq(l, 1, Len(l) - 1) ELSE l]}

\* exit_context: the Context held, if any, is exited and forgotten.
cl_exit_context(c, l) ==
    IF c # 0
    THEN [out |-> "ok", cm |-> 0, lib |-> SubSeq(l, 1, Len(l) - 1)]
    ELSE [out |-> "ok", cm |-> c, lib |-> l]

(* ------------------------ wrapped async iterators --------------------- *)

\* Arguments a caller passes to the wrapped function.
ArgLists == {<<>>, <<5>>}

KwargMaps == {EmptyDict, [prefix |-> "test"]}

\* No wrapper has been made.  active is history: what get_all of the library
\* returned when the wrapper was made.
NoWrap == [made |-> FALSE, captured |-> EmptyDict, active |-> EmptyDict]

\* No iteration is going on.  args and kwargs are what the caller passed;
\* seen lists, for every item yielded, what the function body read and got.
NoIter == [pc |-> "idle", args |-> <<>>, kwargs |-> EmptyDict, seen |-> <<>>]

\* aiter_with_logging_context(func): the wrapper keeps the context values
\* that are current when it is made.
aiter_with_logging_context(l) == cl_get_all(l)

\* (variant) a step that runs the function in the context of the moment.
aiter_step_ambient(captured, l, args, kwargs) ==
    [ctx |-> cl_get_all(l), args |-> args, kwargs |-> kwargs]

\* One step of the wrapper's iteration: the function, called with the
\* caller's arguments, runs in a context that holds the kept values.
aiter_step(captured, l, args, kwargs) ==
    [ctx |-> cl_get_all(Append(l, captured)), args |-> args, kwargs |-> kwargs]

(* ------------------------------ actions ------------------------------- *)

Init ==
    /\ cvar = [t \in Tasks |-> NoRef]
    /\ heap = [r \in {} |-> EmptyDict]
    /\ started = {TaskOrder[1]}
    /\ snap = NoRef
    /\ exc = [t \in Tasks |-> NoExc]
    /\ scopes = [t \in Tasks |-> <<>>]
    /\ base = [t \in Tasks |-> FALSE]
    /\ ever = [t \in Tasks |-> FALSE]
    /\ closed = [t \in Tasks |-> FALSE]
    /\ cur = [t \in Tasks |-> FALSE]
    /\ queue = {}
    /\ nsent = 0
    /\ unit = [t \in Tasks |-> NoUnit]
    /\ served = [t \in Tasks |-> FALSE]
    /\ binding = NoAdapter
    /\ mw = NoMw
    /\ err = "none"
    /\ req = Idle(0)
    /\ gen = [rid |-> 0, cid |-> 0]
    /\ latest = NoMw
    /\ cl = [cm |-> 0, entered |-> FALSE, last |-> "none",
             owner |-> "none",          \* the task that entered the Context held
             calls |-> [t \in Tasks |-> "none"],   \* history: t's last enter or exit
             prior |-> <<EmptyDict>>,   \* history: the library's stack before the last enter
             initial |-> EmptyDict,     \* history: the map of the last enter
             held |-> FALSE]            \* history: set_value was called since the last enter
    /\ lib = [t \in Tasks |-> <<EmptyDict>>]
    /\ stray = [t \in Tasks |-> FALSE]
    /\ wrap = NoWrap
    /\ it = NoIter

\* The store after a call, with unreachable objects freed.
Store(h, cv, sn) ==
    LET c == Collect(h, cv, sn)
    IN  heap' = c.heap /\ cvar' = c.cvar /\ snap' = c.snap

\* asyncio.create_task: the child runs in a copy of the parent's Context.
Spawn(p, c) ==
    /\ Running(p)
    /\ c \notin started
    /\ started' = started \cup {c}
    /\ Store(heap, [cvar EXCEPT ![c] = cvar[p]], snap)
    /\ base' = [base EXCEPT ![c] = Depth(p) > 0 \/ base[p]]
    /\ ever' = [ever EXCEPT ![c] = ever[p]]
    /\ cur' = [cur EXCEPT ![c] = cur[p]]
    /\ lib' = [lib EXCEPT ![c] = lib[p]]
    /\ UNCHANGED <<exc, scopes, closed, queue, nsent, unit, served>>
    /\ UNCHANGED <<rqvars, cl, stray, wrap, it>>

\* enter_context(initial) by task t.
Enter(t, initial) ==
    /\ Running(t)
    /\ LET e == enter_context(heap, cvar, t, initial)
       IN  Store(e.heap, e.cvar, snap)
    /\ scopes' = [scopes EXCEPT ![t] =
                    Append(IF Depth(t) = 0 THEN <<>>
                           ELSE [scopes[t] EXCEPT ![Depth(t)].clean = FALSE,
                                                  ![Depth(t)].exp = EmptyDict],
                           [prior |-> IF Depth(t) > 0 THEN View(t) ELSE NoMap,
                            exp |-> initial, clean |-> TRUE,
                            held |-> FALSE, given |-> FALSE])]
    /\ ever' = [ever EXCEPT ![t] = TRUE]
    /\ closed' = [closed EXCEPT ![t] = FALSE]
    /\ UNCHANGED <<started, exc, base>>

EnterContext(t, initial) == Enter(t, initial) /\ UNCHANGED <<mwvars, rqvars, clvars>>

\* enter_context(d) by task t, where d is the dict the application holds.
\* given is history: the scope was entered with the dict still held.
EnterFrom(t) ==
    /\ Running(t)
    /\ snap # NoRef
    /\ LET e == enter_context_from(heap, cvar, t, snap)
       IN  Store(e.heap, e.cvar, snap)
    /\ scopes' = [scopes EXCEPT ![t] =
                    Append(IF Depth(t) = 0 THEN <<>>
                           ELSE [scopes[t] EXCEPT ![Depth(t)].clean = FALSE,
                                                  ![Depth(t)].exp = EmptyDict],
                           [prior |-> IF Depth(t) > 0 THEN View(t) ELSE NoMap,
                            exp |-> heap[snap], clean |-> TRUE,
                            held |-> FALSE, given |-> TRUE])]
    /\ ever' = [ever EXCEPT ![t] = TRUE]
    /\ closed' = [closed EXCEPT ![t] = FALSE]
    /\ UNCHANGED <<started, exc, base>>
    /\ UNCHANGED <<mwvars, rqvars, clvars>>

SetValue(t, k, v) ==
    /\ Running(t)
    /\ LET s == set_value(heap, cvar[t], k, v)
       IN  Store(s.heap, cvar, snap)
    /\ scopes' = [u \in Tasks |->
                    IF Depth(u) > 0 /\ cvar[u] = cvar[t] /\ cvar[t] # NoRef
                    THEN [scopes[u] EXCEPT
                            ![Depth(u)].exp = IF Top(u).clean THEN DictSet(@, k, v) ELSE @,
                            ![Depth(u)].held = TRUE]
                    ELSE scopes[u]]
    /\ closed' = [closed EXCEPT ![t] = FALSE]
    /\ UNCHANGED <<started, exc, base, ever>>
    /\ UNCHANGED <<mwvars, rqvars, clvars>>

\* get_value changes nothing; what it returns is get_value(heap, cvar[t], k).
GetValue(t, k) ==
    /\ Running(t)
    /\ get_value(heap, cvar[t], k) \in Vals \cup {None, "AttributeError"}
    /\ UNCHANGED vars

\* get_all whose result is read and dropped (a log formatter).
ReadAll(t) ==
    /\ Running(t)
    /\ Store(get_all(heap, cvar[t]).heap, cvar, snap)
    /\ UNCHANGED <<started, exc, scopes, base, ever, closed>>
    /\ UNCHANGED <<mwvars, rqvars, clvars>>

\* get_all whose result the application keeps.
GetAll(t) ==
    /\ Running(t)
    /\ LET g == get_all(heap, cvar[t])
       IN  /\ Store(g.heap, cvar, IF g.out = "ok" THEN g.ref ELSE snap)
           /\ scopes' = IF g.out = "ok"
                        THEN [u \in Tasks |->
                                [i \in DOMAIN scopes[u] |-> [scopes[u][i] EXCEPT !.given = FALSE]]]
                        ELSE scopes
    /\ UNCHANGED <<started, exc, base, ever, closed>>
    /\ UNCHANGED <<mwvars, rqvars, clvars>>

\* The application changes the dict get_all gave it: all_values[k] = v.
MutateSnap(k, v) ==
    /\ snap # NoRef
    /\ Store([heap EXCEPT ![snap] = DictSet(@, k, v)], cvar, snap)
    /\ UNCHANGED <<started, exc, scopes, base, ever, closed>>
    /\ UNCHANGED <<mwvars, rqvars, clvars>>

\* The application removes a key from that dict: del all_values[k].
DeleteSnap(k) ==
    /\ snap # NoRef
    /\ k \in DOMAIN heap[snap]
    /\ Store([heap EXCEPT ![snap] = DictDel(@, k)], cvar, snap)
    /\ UNCHANGED <<started, exc, scopes, base, ever, closed>>
    /\ UNCHANGED <<mwvars, rqvars, clvars>>

\* The body of t's innermost scope raises ValueError("test error"); the test
\* of an already enriched failure sets __context_logging__ before raising.
Raise(t, m) ==
    /\ Running(t)
    /\ Depth(t) > 0
    /\ exc' = [exc EXCEPT ![t] =
                 [NoExc EXCEPT !.live = TRUE, !.args = <<Msg>>, !.marked = m,
                               !.raisedMarked = m, !.depthAtRaise = Depth(t),
                               !.allHeld = \A i \in 1 .. Depth(t) : scopes[t][i].held]]
    /\ UNCHANGED <<cvar, heap, started, snap, scopes, base, ever, closed>>
    /\ UNCHANGED <<mwvars, rqvars, clvars>>

\* Scope exit: the failure leaving the body, if any, is enriched with the
\* final snapshot; then exit_context().
Leave(t) ==
    /\ t \in started
    /\ Depth(t) > 0
    /\ LET g == get_all(heap, cvar[t])
           final == g.heap[g.ref]
           x == exit_context(heap, cvar, t)
       IN  /\ Store(x.heap, x.cvar, snap)
           /\ exc' = IF exc[t].live
                     THEN [exc EXCEPT ![t] =
                             [enrich(exc[t], final) EXCEPT
                                !.left = @ + 1,
                                !.inner = IF exc[t].left = 0 THEN View(t).map ELSE @,
                                !.innerClean = IF exc[t].left = 0 THEN Top(t).clean ELSE @,
                                !.innerExp = IF exc[t].left = 0 THEN Top(t).exp ELSE @,
                                !.last = View(t).map,
                                !.argsBefore = exc[t].args,
                                !.markedBefore = exc[t].marked]]
                     ELSE exc
    /\ scopes' = [scopes EXCEPT ![t] = SubSeq(@, 1, Depth(t) - 1)]
    /\ closed' = [closed EXCEPT ![t] = Top(t).held]
    /\ UNCHANGED <<started, base, ever>>

ExitContext(t) == Leave(t) /\ UNCHANGED <<mwvars, rqvars, clvars>>

\* The failure has left every scope and the caller's except clause takes it.
Catch(t) ==
    /\ t \in started
    /\ exc[t].live
    /\ Depth(t) = 0
    /\ exc' = [exc EXCEPT ![t] = NoExc]
    /\ UNCHANGED <<cvar, heap, started, snap, scopes, base, ever, closed>>
    /\ UNCHANGED <<mwvars, rqvars, clvars>>

\* Hand-off: pre_send attaches the carrier of t's snapshot to a new message.
\* When get_all raises, so does pre_send, and no message is sent.
PreSend(t) ==
    /\ Running(t)
    /\ LET p == pre_send(heap, cvar[t], MsgOrder[nsent + 1])
       IN  /\ p.out = "ok"
           /\ queue' = queue \cup {p.msg}
    /\ nsent' = nsent + 1
    /\ UNCHANGED <<cvar, heap, started, snap, exc, scopes, base, ever, closed, cur, unit, served>>
    /\ UNCHANGED <<rqvars, clvars>>

\* A receiving unit starts: pre_execute decodes the carrier, opens a scope
\* with the decoded map and the unit's task_id, and keeps the adapter in
\* _current_context.
PreExecute(t, msg) ==
    /\ msg \in queue \cup Foreign
    /\ unit[t] = NoUnit
    /\ Depth(t) = 0
    /\ decode(msg.label).out = "ok"
    /\ Enter(t, scope_initial(msg))
    /\ cur' = [cur EXCEPT ![t] = TRUE]
    /\ unit' = [unit EXCEPT ![t] = msg]
    /\ queue' = queue \ {msg}
    /\ UNCHANGED <<nsent, served>>
    /\ UNCHANGED <<rqvars, clvars>>

\* The unit has completed, with or without an error in its result:
\* post_save closes the scope pre_execute opened.
PostSave(t, is_err) ==
    /\ Running(t)
    /\ unit[t] # NoUnit
    /\ Depth(t) = 1
    /\ LET x == post_save(heap, cvar, cur, t)
       IN  Store(x.heap, x.cvar, snap) /\ cur' = x.cur
    /\ scopes' = [scopes EXCEPT ![t] = <<>>]
    /\ closed' = [closed EXCEPT ![t] = Top(t).held]
    /\ unit' = [unit EXCEPT ![t] = NoUnit]
    /\ served' = [served EXCEPT ![t] = TRUE]
    /\ UNCHANGED <<started, exc, base, ever, queue, nsent>>
    /\ UNCHANGED <<rqvars, clvars>>

\* The application constructs a request middleware.  When __init__ raises,
\* the application keeps the object it had.
Construct(config, importable) ==
    /\ req = Idle(0)
    /\ LET i == init(config, importable, binding)
       IN  /\ err' = i.out
           /\ binding' = i.binding
           /\ mw' = IF i.out = "ok" THEN i.mw ELSE mw
           /\ latest' = IF i.out = "ok" THEN i.mw ELSE latest
    /\ UNCHANGED <<req, gen, clvars>>
    /\ UNCHANGED <<avars, mwvars>>

\* The application constructs a further request middleware, for another
\* app of the process, while the server goes on calling the one it has.
ConstructAside(config, importable) ==
    /\ mw.built
    /\ LET i == init(config, importable, binding)
       IN  /\ err' = i.out
           /\ binding' = i.binding
           /\ latest' = IF i.out = "ok" THEN i.mw ELSE latest
    /\ UNCHANGED <<mw, req, gen, clvars>>
    /\ UNCHANGED <<avars, mwvars>>

\* The server calls the middleware for a scope: __call__ up to the point
\* where it awaits the wrapped app.
Call(t, scope) ==
    /\ mw.built /\ mw.adapter.cls = "contextvars" /\ err = "ok"
    /\ req.pc = "idle"
    /\ Depth(t) = 0
    /\ IF configured(mw.config, scope)
       THEN LET i == identifiers(mw.config, scope, gen)
            IN  /\ Enter(t, initial_context(i.request_id, i.correlation_id))
                /\ gen' = i.gen
                /\ req' = [req EXCEPT !.pc = "app", !.scope = scope, !.processed = TRUE,
                                      !.wrapped = mw.config.add_response_headers,
                                      !.request_id = i.request_id,
                                      !.correlation_id = i.correlation_id,
                                      !.genBefore = gen, !.enters = 1,
                                      !.on = call_adapter(mw, binding)]
       ELSE /\ req' = [req EXCEPT !.pc = "app", !.scope = scope, !.genBefore = gen]
            /\ UNCHANGED gen
            /\ UNCHANGED avars
    /\ UNCHANGED <<binding, mw, err, latest, clvars>>
    /\ UNCHANGED mwvars

\* The wrapped app calls the send it was given.
AppSend(message) ==
    /\ req.pc = "app"
    /\ message \in AppMessages(req.scope.type)
    /\ req' = [req EXCEPT !.fwd =
                 Append(@, [orig |-> message,
                            out |-> IF req.wrapped
                                    THEN send_with_headers(mw.config, req.request_id,
                                                           req.correlation_id, message)
                                    ELSE message])]
    /\ UNCHANGED <<binding, mw, err, gen, latest, clvars>>
    /\ UNCHANGED <<avars, mwvars>>

\* The wrapped app returns, raises or is cancelled, and __call__ finishes.
AppEnd(t, how) ==
    /\ req.pc = "app"
    /\ IF req.processed /\ cleanup(how)
       THEN Leave(t) /\ req' = [req EXCEPT !.pc = "done", !.how = how, !.exits = @ + 1,
                                           !.off = call_adapter(mw, binding)]
       ELSE /\ req' = [req EXCEPT !.pc = "done", !.how = how]
            /\ UNCHANGED avars
    /\ UNCHANGED <<binding, mw, err, gen, latest, clvars>>
    /\ UNCHANGED mwvars

\* The server is ready for the next request.
Finish ==
    /\ req.pc = "done"
    /\ req' = Idle(req.n + 1)
    /\ UNCHANGED <<binding, mw, err, gen, latest, clvars>>
    /\ UNCHANGED <<avars, mwvars>>

\* post_save in a task that is executing no unit.
PostSaveIdle(t, is_err) ==
    /\ Running(t)
    /\ unit[t] = NoUnit
    /\ Depth(t) = 0
    /\ LET x == post_save(heap, cvar, cur, t)
       IN  Store(x.heap, x.cvar, snap) /\ cur' = x.cur
    /\ stray' = [stray EXCEPT ![t] = TRUE]
    /\ UNCHANGED <<started, exc, scopes, base, ever, closed, queue, nsent, unit, served>>
    /\ UNCHANGED <<rqvars, cl, lib, wrap, it>>

\* enter_context on the context-logging adapter, called in task t.
CLEnter(t, initial) ==
    /\ t \in started
    /\ LET e == cl_enter_context(cl.cm, lib[t], initial)
       IN  /\ lib' = [lib EXCEPT ![t] = e.lib]
           /\ cl' = [cm |-> e.cm, entered |-> TRUE, last |-> "enter",
                     owner |-> t, calls |-> [cl.calls EXCEPT ![t] = "entered"],
                     prior |-> lib[t], initial |-> initial, held |-> FALSE]
    /\ UNCHANGED <<avars, mwvars, rqvars, stray, wrap, it>>

\* set_value on the context-logging adapter, called in task t.
CLSet(t, k, v) ==
    /\ t \in started
    /\ lib' = [lib EXCEPT ![t] = cl_set_value(lib[t], k, v)]
    /\ cl' = [cl EXCEPT !.last = "set", !.held = TRUE]
    /\ UNCHANGED <<avars, mwvars, rqvars, stray, wrap, it>>

\* exit_context on the context-logging adapter, called in task t.
CLExit(t) ==
    /\ t \in started
    /\ \E x \in IF cl.cm # 0 /\ cl.owner # t
                 THEN cl_exit_context_foreign(cl.cm, lib[t])
                 ELSE {cl_exit_context(cl.cm, lib[t])} :
          /\ lib' = [lib EXCEPT ![t] = x.lib]
          /\ cl' = [cl EXCEPT !.cm = x.cm,
                              !.owner = IF x.cm = 0 THEN "none" ELSE @,
                              !.last = IF x.out = "ok" THEN "exit" ELSE "raise",
                              !.calls[t] = IF x.out = "ok" THEN "exited" ELSE "raised"]
    /\ UNCHANGED <<avars, mwvars, rqvars, stray, wrap, it>>

\* aiter_with_logging_context(func) is called.
Wrap ==
    /\ ~wrap.made
    /\ wrap' = [made |-> TRUE, captured |-> aiter_with_logging_context(lib[TaskOrder[1]]),
                active |-> cl_get_all(lib[TaskOrder[1]])]
    /\ UNCHANGED <<avars, mwvars, rqvars, cl, lib, stray, it>>

\* The wrapper is called with arguments and its iteration begins.
IterCall(args, kwargs) ==
    /\ wrap.made
    /\ it.pc = "idle"
    /\ it' = [pc |-> "running", args |-> args, kwargs |-> kwargs, seen |-> <<>>]
    /\ UNCHANGED <<avars, mwvars, rqvars, cl, lib, stray, wrap>>

\* The iteration is advanced by one item.
IterStep ==
    /\ it.pc = "running"
    /\ it' = [it EXCEPT !.seen = Append(@, aiter_step(wrap.captured, lib[TaskOrder[1]], it.args, it.kwargs))]
    /\ UNCHANGED <<avars, mwvars, rqvars, cl, lib, stray, wrap>>

(* --------------------------- specifications --------------------------- *)

\* Several tasks interleave their calls on the store.
Next ==
    \/ \E p, c \in Tasks : Spawn(p, c)
    \/ \E t \in Tasks : \E initial \in [ConcKeys -> {FirstVal(t)}] \cup {EmptyDict} :
          Depth(t) < MaxDepthConc /\ EnterContext(t, initial)
    \/ \E t \in Tasks : \E k \in ConcKeys : SetValue(t, k, FirstVal(t))
    \/ \E t \in Tasks : \E k \in ConcKeys : GetValue(t, k)
    \/ \E t \in Tasks : ReadAll(t)
    \/ \E t \in Tasks : ExitContext(t)

Spec == Init /\ [][Next]_vars

Main == TaskOrder[1]

\* One task: every key and value, nested scopes and failing bodies.
NextSeq ==
    \/ \E initial \in DictsOf(Main) :
          Depth(Main) < MaxDepthSeq /\ EnterContext(Main, initial)
    \/ \E k \in Keys : \E v \in ValsOf(Main) : SetValue(Main, k, v)
    \/ \E k \in Keys : GetValue(Main, k)
    \/ ReadAll(Main)
    \/ \E m \in BOOLEAN : Raise(Main, m)
    \/ ExitContext(Main)
    \/ Catch(Main)

SpecSeq == Init /\ [][NextSeq]_vars

\* One task that keeps and changes the dicts get_all returns.
NextSnap ==
    \/ \E initial \in DictsOver({FirstVal(Main)}) :
          Depth(Main) < MaxDepth /\ EnterContext(Main, initial)
    \/ \E k \in Keys : SetValue(Main, k, FirstVal(Main))
    \/ \E k \in Keys : GetValue(Main, k)
    \/ GetAll(Main)
    \/ \E k \in Keys : \E v \in Vals \ ValsOf(Main) : MutateSnap(k, v)
    \/ \E k \in Keys : DeleteSnap(k)
    \/ ExitContext(Main)

SpecSnap == Init /\ [][NextSnap]_vars

\* One task that enters scopes with literal maps and with the dict it holds,
\* and changes that dict and the scope's fields afterwards.
NextGiven ==
    \/ \E initial \in DictsOver({FirstVal(Main)}) :
          Depth(Main) < MaxDepthConc /\ EnterContext(Main, initial)
    \/ GetAll(Main)
    \/ Depth(Main) < MaxDepthConc /\ EnterFrom(Main)
    \/ \E k \in Keys : SetValue(Main, k, FirstVal(Main))
    \/ \E k \in Keys : MutateSnap(k, FirstVal(TaskOrder[2]))
    \/ \E k \in Keys : DeleteSnap(k)
    \/ ExitContext(Main)

SpecGiven == Init /\ [][NextGiven]_vars

\* The map the request middleware opens a request's scope with.
OriginMap(t) == [k \in {"request_id", "correlation_id"} |-> FirstVal(t)]

\* The first task serves a request in a scope of its own and hands units off
\* to a queue; every task takes units from the queue and runs them.
NextTask ==
    \/ \E p, c \in Tasks : Spawn(p, c)
    \/ Depth(Main) = 0 /\ unit[Main] = NoUnit /\ EnterContext(Main, OriginMap(Main))
    \/ Depth(Main) > 0 /\ SetValue(Main, "user_id", FirstVal(Main))
    \/ \E t \in Tasks : ReadAll(t)
    \/ \E t \in Tasks : nsent < MaxSent /\ PreSend(t)
    \/ \E t \in Tasks : \E msg \in queue \cup Foreign : PreExecute(t, msg)
    \/ \E t \in Tasks : \E is_err \in BOOLEAN : PostSave(t, is_err)
    \/ unit[Main] = NoUnit /\ ExitContext(Main)

SpecTask == Init /\ [][NextTask]_vars

Worker == TaskOrder[2]

\* The first task serves a request, sets a field more than once and hands
\* units off in between; the second task runs them.
NextCarry ==
    \/ Spawn(Main, Worker)
    \/ Depth(Main) = 0 /\ EnterContext(Main, OriginMap(Main))
    \/ \E v \in ValsOf(Main) : Depth(Main) > 0 /\ SetValue(Main, "user_id", v)
    \/ nsent < MaxHandoffs /\ Depth(Main) > 0 /\ PreSend(Main)
    \/ \E msg \in queue : PreExecute(Worker, msg)
    \/ \E is_err \in BOOLEAN : PostSave(Worker, is_err)
    \/ ExitContext(Main)

SpecCarry == Init /\ [][NextCarry]_vars

\* The application sets the request middleware up and the server calls it
\* for one scope after the other.
NextReq ==
    \/ \E a \in AdapterConfigs : \E add, importable \in BOOLEAN :
          Construct(Config(a, add), importable)
    \/ \E scope \in Scopes : req.n < MaxRequests /\ Call(Main, scope)
    \/ \E message \in AppMessages(req.scope.type) :
          Len(req.fwd) < MaxMsgs /\ AppSend(message)
    \/ \E how \in Ends : AppEnd(Main, how)
    \/ Finish

SpecReq == Init /\ [][NextReq]_vars

\* Middlewares the application constructs.
BindConfigs ==
    {Config(a, FALSE) : a \in {[str |-> TRUE, val |-> "contextvars"],
                               [str |-> TRUE, val |-> "invalid"],
                               [str |-> FALSE, val |-> "custom"]}}

\* The application constructs middlewares, before and while the server calls
\* one of them for requests.
NextBind ==
    \/ \E config \in BindConfigs : Construct(config, TRUE)
    \/ \E config \in BindConfigs : ConstructAside(config, TRUE)
    \/ \E scope \in Scopes : req.n < MaxRequests /\ Call(Main, scope)
    \/ \E how \in Ends : AppEnd(Main, how)
    \/ Finish

SpecBind == Init /\ [][NextBind]_vars

\* Closing calls with and without something open: a context-logging adapter
\* that is entered, written and exited, and tasks that run units and call
\* post_save in and out of them.  The second task is created while the
\* library holds nothing.
NextClose ==
    \/ \E initial \in [ConcKeys -> {FirstVal(Main)}] \cup {EmptyDict} :
          Len(lib[Main]) <= MaxDepthCL /\ CLEnter(Main, initial)
    \/ \E k \in ConcKeys : CLSet(Main, k, FirstVal(Main))
    \/ CLExit(Main)
    \/ lib[Main] = <<EmptyDict>> /\ Spawn(Main, Worker)
    \/ \E t \in Tasks : \E msg \in Foreign : PreExecute(t, msg)
    \/ \E t \in Tasks : \E is_err \in BOOLEAN : PostSave(t, is_err)
    \/ \E t \in Tasks : \E is_err \in BOOLEAN : PostSaveIdle(t, is_err)

SpecClose == Init /\ [][NextClose]_vars

\* An async iterator function is wrapped at some point of a run that enters,
\* writes and exits contexts, and is iterated later.
NextIter ==
    \/ \E initial \in [ConcKeys -> ValsOf(Main)] \cup {EmptyDict} :
          Len(lib[Main]) <= MaxDepthCL /\ CLEnter(Main, initial)
    \/ \E k \in ConcKeys : \E v \in ValsOf(Main) : cl.cm # 0 /\ CLSet(Main, k, v)
    \/ CLExit(Main)
    \/ Wrap
    \/ \E args \in ArgLists : \E kwargs \in KwargMaps : IterCall(args, kwargs)
    \/ Len(it.seen) < MaxSteps /\ IterStep

SpecIter == Init /\ [][NextIter]_vars

\* Two tasks, created while the library holds nothing, serve requests through
\* one middleware and so through one context-logging adapter object: each
\* enters the adapter, sets fields and exits it, in any interleaving.
NextShared ==
    \/ lib[Main] = <<EmptyDict>> /\ Spawn(Main, Worker)
    \/ \E t \in Tasks : \E initial \in [ConcKeys -> ValsOf(t)] \cup {EmptyDict} :
          /\ cl.calls[t] \in {"none", "exited"}
          /\ Len(lib[t]) <= MaxDepthCL
          /\ CLEnter(t, initial)
    \/ \E t \in Tasks : \E k \in ConcKeys : \E v \in ValsOf(t) :
          cl.calls[t] = "entered" /\ CLSet(t, k, v)
    \/ \E t \in Tasks : cl.calls[t] = "entered" /\ CLExit(t)

SpecShared == Init /\ [][NextShared]_vars

(* ------------------------------- claims ------------------------------- *)

\* C1: when two tasks have each opened their own scope, a set_value inside
\* the scope of one, or an enter_context with its initial map by one, changes
\* nothing that get_value or get_all return in the other: no read of one task
\* returns a value the other wrote or supplied.
C1_Isolation ==
    [][\A t, u \in Tasks :
          /\ t # u
          /\ Depth(t) > 0
          /\ \/ Depth(u) > 0 /\ \E k \in Keys : \E v \in Vals : SetValue(u, k, v)
             \/ \E initial \in Dicts : EnterContext(u, initial)
          => Reads(heap', cvar', t) = Reads(heap, cvar, t)]_vars

\* Both tasks are inside their own scope and each reads the value it wrote.
C1_Witness ==
    \A t \in Tasks :
       /\ Depth(t) > 0
       /\ Top(t).held
       /\ \E k \in ConcKeys : get_value(heap, cvar[t], k) = FirstVal(t)

\* C2: when scope B, entered while scope A was active and holding only set
\* calls in its body, exits, get_all returns A's map exactly as it was
\* immediately before B was entered.
C2_NestedExitRestores ==
    [][\A t \in Tasks :
          ExitContext(t) /\ Depth(t) >= 2 /\ Top(t).clean
          => /\ Reads(heap', cvar', t).out = "ok"
             /\ Reads(heap', cvar', t).all = Top(t).prior.map]_vars

\* C3: in a task with no enclosing scope, after enter_context, any set_value
\* calls and exit_context, get_value returns None for every key.
C3_ExitClears ==
    [][\A t \in Tasks :
          ExitContext(t) /\ Depth(t) = 1 /\ ~base[t]
          => \A k \in Keys : get_value(heap', cvar'[t], k) = None]_vars

\* The task has just closed its outermost scope, in which it had set a field, and
\* every read is None.
C3_Witness ==
    /\ closed[Main]
    /\ Depth(Main) = 0
    /\ \A k \in Keys : get_value(heap, cvar[Main], k) = None

\* C4: inside an open scope whose body so far holds only set and get calls,
\* get_value(k) is the value of the most recent set_value(k, _), else the
\* initial map's value for k, else None; get_all is exactly the initial map
\* overridden by the sets so far.
C4_ReadsLatestSet ==
    \A t \in started :
       Depth(t) > 0 /\ Top(t).clean
       => /\ \A k \in Keys : get_value(heap, cvar[t], k) = DictGet(Top(t).exp, k)
          /\ Reads(heap, cvar, t).out = "ok"
          /\ Reads(heap, cvar, t).all = Top(t).exp

\* A scope in which one field was given a second value and the other a first.
C4_Witness ==
    /\ Depth(Main) > 0
    /\ Top(Main).clean
    /\ get_value(heap, cvar[Main], "request_id") = "a1"
    /\ get_value(heap, cvar[Main], "user_id") = "a2"

\* C5: in a task where no scope has ever been entered, set_value(k, v) raises
\* nothing and has no effect: a following get_value(k) returns None.
C5_SetWithoutScopeIsNoOp ==
    \A t \in started :
       ~ever[t]
       => \A k \in Keys : \A v \in ValsOf(t) :
             LET s == set_value(heap, cvar[t], k, v)
             IN  s.out = "ok" /\ get_value(s.heap, cvar[t], k) = None

\* C6: in a task where no scope is active, get_value(k) returns None for
\* every key and never raises.
C6_GetWithoutScopeIsNone ==
    \A t \in started :
       Depth(t) = 0 /\ ~base[t]
       => \A k \in Keys : get_value(heap, cvar[t], k) = None

\* C7: adding, changing or removing a key in the dict get_all returned changes
\* nothing that a later get_value or get_all returns.
C7_SnapshotIsCopy ==
    [][(\/ \E k \in Keys : \E v \in Vals : MutateSnap(k, v)
        \/ \E k \in Keys : DeleteSnap(k))
       => \A t \in started : Reads(heap', cvar', t) = Reads(heap, cvar, t)]_vars

\* Inside a scope that holds a field, the application holds a returned dict
\* to which it has added a value of its own.
C7_Witness ==
    /\ snap # NoRef
    /\ Depth(Main) > 0
    /\ View(Main).map # EmptyDict
    /\ \E k \in Keys : DictGet(heap[snap], k) \in Vals \ ValsOf(Main)
    /\ \A k \in Keys : get_value(heap, cvar[Main], k) \in ValsOf(Main) \cup {None}

\* C8: when a failure not yet marked leaves a scope whose final map is not
\* empty, its args get exactly one more, trailing element, equal to that map,
\* and it is marked (__context_logging__).
C8_FailureEnriched ==
    \A t \in Tasks :
       exc[t].live /\ exc[t].left > 0 /\ exc[t].last # EmptyDict /\ ~exc[t].markedBefore
       => /\ exc[t].args = Append(exc[t].argsBefore, exc[t].last)
          /\ exc[t].marked

\* A fresh failure has left one scope that held both fields.
C8_Witness ==
    /\ exc[Main].live
    /\ exc[Main].left = 1
    /\ ~exc[Main].markedBefore
    /\ DOMAIN exc[Main].last = Keys
    /\ Len(exc[Main].args) = 2

\* C9: a failure raised unmarked inside two or more nested scopes, each of
\* which has set at least one field, has left the outermost of them with
\* exactly one enrichment: the innermost scope's final map, which holds that
\* scope's own fields only.
C9_EnrichedOnce ==
    \A t \in Tasks :
       /\ exc[t].live
       /\ exc[t].left = exc[t].depthAtRaise
       /\ exc[t].depthAtRaise >= 2
       /\ exc[t].allHeld
       /\ ~exc[t].raisedMarked
       => /\ exc[t].args = <<Msg, exc[t].inner>>
          /\ exc[t].innerClean => exc[t].inner = exc[t].innerExp

\* C10: when a failure already marked leaves a scope, its args are unchanged,
\* whatever the scope's map holds.
C10_MarkedFailureUntouched ==
    \A t \in Tasks :
       exc[t].live /\ exc[t].left > 0 /\ exc[t].markedBefore
       => exc[t].args = exc[t].argsBefore /\ exc[t].marked

\* A failure raised with the marker set has left a scope that held a field.
C10_Witness ==
    /\ exc[Main].live
    /\ exc[Main].left = 1
    /\ exc[Main].raisedMarked
    /\ exc[Main].last # EmptyDict
    /\ exc[Main].args = <<Msg>>

C12_FailureKept ==
    [][\A t \in Tasks :
          ExitContext(t) /\ exc[t].live
          => /\ exc'[t].live
             /\ Len(exc'[t].args) >= Len(exc[t].args)
             /\ SubSeq(exc'[t].args, 1, Len(exc[t].args)) = exc[t].args
             /\ exc'[t].args[1] = Msg
             /\ get_all(heap, cvar[t]).out = "ok"]_vars

\* The failure has left two scopes, was enriched by the first, and still
\* carries its message first.
C12_Witness ==
    /\ exc[Main].live
    /\ exc[Main].left = 2
    /\ Len(exc[Main].args) = 2
    /\ exc[Main].args[1] = Msg
    /\ exc[Main].inner # EmptyDict

\* Maps a sender can hold that have no request_id.
CarriedMaps ==
    UNION {[D -> {"a1", ForeignId}] : D \in SUBSET (HandoffKeys \ {"request_id"})}

\* Maps a sender can hold.
SenderMaps == UNION {[D -> {"a1"}] : D \in SUBSET HandoffKeys}

\* The carrier has no request_id member, and a member with m's value for
\* every other field of m.
Carries(label, m) ==
    /\ label.kind = "json"
    /\ \A i \in DOMAIN label.doc : label.doc[i][1] # "request_id"
    /\ \A k \in DOMAIN m \ {"request_id"} :
          \E i \in DOMAIN label.doc : label.doc[i] = <<k, m[k]>>

\* C13: the carrier of a map, and so the carrier pre_send attaches, never
\* has a request_id member, and has a member for correlation_id and for every
\* other field of the sender's snapshot, with the snapshot's value.
C13_CarrierFiltered ==
    /\ \A m \in SenderMaps : Carries(encode(m), m)
    /\ \A msg \in queue : Carries(msg.label, msg.origin)

\* A message is queued that was sent from a scope holding request_id,
\* correlation_id and user_id.
C13_Witness ==
    \E msg \in queue :
       /\ {"request_id", "correlation_id", "user_id"} \subseteq DOMAIN msg.origin
       /\ Len(msg.label.doc) = 2

C15_AbsentCarrier ==
    [][/\ \A label \in {NoLabel, EmptyLabel, JsonLabel(<<>>)} :
             decode(label) = [out |-> "ok", map |-> EmptyDict]
       /\ \A t \in Tasks : \A msg \in Foreign :
             PreExecute(t, msg)
             => /\ ViewOf(heap', cvar', t) = [has |-> TRUE, map |-> ("task_id" :> msg.task_id)]
                /\ cur'[t]]_vars

\* One task runs a unit whose message had no label, another a unit whose
\* label was the empty string; each reads its task_id and nothing else.
C15_Witness ==
    /\ unit[TaskOrder[1]].label = NoLabel
    /\ unit[TaskOrder[2]].label = EmptyLabel
    /\ \A t \in Tasks : View(t).map = ("task_id" :> ForeignId)

\* C16: in a task whose current context is empty, be it an empty map or no
\* scope at all, pre_send raises nothing and attaches a carrier that decodes
\* to the empty map.
C16_EmptyHandoff ==
    \A t \in started :
       View(t).map = EmptyDict
       => LET p == pre_send(heap, cvar[t], MsgOrder[1])
          IN  /\ p.out = "ok"
              /\ decode(p.msg.label) = [out |-> "ok", map |-> EmptyDict]

\* C17: while a unit executes, task_id reads as the id of the unit's own
\* message, also when the carrier holds a task_id.
C17_OwnTaskId ==
    \A t \in Tasks :
       unit[t] # NoUnit => get_value(heap, cvar[t], "task_id") = unit[t].task_id

\* A unit executes whose carrier holds the task_id of the unit that sent it.
C17_Witness ==
    \E t \in Tasks :
       /\ unit[t] # NoUnit
       /\ "task_id" \in DOMAIN decode(unit[t].label).map
       /\ decode(unit[t].label).map["task_id"] # unit[t].task_id
       /\ get_value(heap, cvar[t], "task_id") = unit[t].task_id

\* C18: while a unit executes and has set no field, get_all is the sender's
\* snapshot without request_id and with task_id set to the unit's id:
\* request_id reads None and nothing of an earlier unit is there.
C18_UnitSnapshot ==
    \A t \in Tasks :
       unit[t] # NoUnit /\ ~Top(t).held
       => /\ View(t).map = DictSet(DictDel(unit[t].origin, "request_id"),
                                   "task_id", unit[t].task_id)
          /\ get_value(heap, cvar[t], "request_id") = None
          /\ \A k \in DOMAIN unit[t].origin \ {"request_id", "task_id"} :
                get_value(heap, cvar[t], k) = unit[t].origin[k]

\* A task that has completed a unit before executes a message sent from a
\* scope with request_id, correlation_id and user_id.
C18_Witness ==
    \E t \in Tasks :
       /\ served[t]
       /\ unit[t] # NoUnit
       /\ ~Top(t).held
       /\ DOMAIN unit[t].origin = {"request_id", "correlation_id", "user_id"}
       /\ DOMAIN View(t).map = {"correlation_id", "user_id", "task_id"}

\* C19: when a unit completes, with or without an error, post_save leaves
\* _current_context None and the task's context empty: every field reads
\* None.
C19_UnitClosed ==
    [][\A t \in Tasks : \A is_err \in BOOLEAN :
          PostSave(t, is_err)
          => /\ ~cur'[t]
             /\ unit'[t] = NoUnit
             /\ ViewOf(heap', cvar', t) = [has |-> TRUE, map |-> EmptyDict]
             /\ \A k \in HandoffKeys : get_value(heap', cvar'[t], k) = None]_vars

\* The second task has completed a unit and reads nothing.
C19_Witness ==
    /\ served[TaskOrder[2]]
    /\ unit[TaskOrder[2]] = NoUnit
    /\ ~cur[TaskOrder[2]]
    /\ \A k \in HandoffKeys : get_value(heap, cvar[TaskOrder[2]], k) = None

\* C20: while two tasks each execute a unit, each reads its own task_id, and
\* the pre_execute or post_save of one changes nothing the other reads, nor
\* the other's _current_context.
C20_UnitsIsolated ==
    [][\A t, u \in Tasks :
          t # u /\ unit[t] # NoUnit
          => /\ get_value(heap, cvar[t], "task_id") = unit[t].task_id
             /\ (\/ \E is_err \in BOOLEAN : PostSave(u, is_err)
                 \/ \E msg \in queue \cup Foreign : PreExecute(u, msg))
                => /\ HandoffReads(heap', cvar', t) = HandoffReads(heap, cvar, t)
                   /\ cur'[t] = cur[t]
                   /\ unit'[t] = unit[t]]_vars

\* Both tasks execute a unit, one of a message with a carrier and one of a
\* message without, and each reads its own task_id.
C20_Witness ==
    /\ \A t \in Tasks : unit[t] # NoUnit /\ cur[t]
    /\ unit[TaskOrder[1]].task_id # unit[TaskOrder[2]].task_id
    /\ \E t \in Tasks : unit[t].label.doc # <<>>
    /\ \A t \in Tasks : get_value(heap, cvar[t], "task_id") = unit[t].task_id

\* C21: the carrier holds the sender's context as of the hand-off.  The
\* message pre_send queues carries the values the sender reads at that moment
\* (so the old value before a set and the new one after it); a unit that
\* starts reads the values of its message's hand-off, whatever the sender
\* holds by then; and a set_value or exit_context of the sender changes
\* neither a queued message nor what an executing unit reads.
C21_CarrierAtHandoff ==
    [][/\ \A t \in Tasks :
             PreSend(t)
             => \E msg \in queue' \ queue :
                   /\ msg.origin = View(t).map
                   /\ \A k \in HandoffKeys \ {"request_id"} :
                         DictGet(decode(msg.label).map, k) = get_value(heap, cvar[t], k)
       /\ \A t \in Tasks : \A msg \in queue :
             PreExecute(t, msg)
             => \A k \in HandoffKeys \ {"request_id", "task_id"} :
                   get_value(heap', cvar'[t], k) = DictGet(msg.origin, k)
       /\ \A t, u \in Tasks :
             /\ t # u
             /\ \/ \E k \in HandoffKeys : \E v \in Vals : SetValue(u, k, v)
                \/ ExitContext(u)
             => /\ queue' = queue
                /\ unit[t] # NoUnit
                   => HandoffReads(heap', cvar', t) = HandoffReads(heap, cvar, t)]_vars

\* The sender handed off before and after a set and has left its scope: the
\* unit of the first message reads the old value while the second message,
\* still queued, carries the new one.
C21_Witness ==
    /\ Depth(Main) = 0
    /\ unit[Worker].task_id = MsgOrder[1]
    /\ get_value(heap, cvar[Worker], "user_id") = "a1"
    /\ \E msg \in queue :
          /\ msg.task_id = MsgOrder[2]
          /\ DictGet(decode(msg.label).map, "user_id") = "a2"

\* An inbound header list without its request-id headers.
StripRequestId(hs) ==
    SelectSeq(hs, LAMBDA h : bytes_lower(h[1]) # str_encode(Lower("X-Request-Id")))

\* C22: when __call__ serves a scope of a configured type, the request_id it
\* enters the scope with is the next value of the request-id generator and
\* the value of no inbound header, and the identifiers it computes for any
\* scope that differs from this one in its request-id headers only are the
\* same, as is the generators' state afterwards.
C22_RequestIdGenerated ==
    [][\A scope \in Scopes :
          Call(Main, scope) /\ configured(mw.config, scope)
          => /\ get_value(heap', cvar'[Main], "request_id") = ReqIds[gen.rid + 1]
             /\ gen'.rid = gen.rid + 1
             /\ \A i \in DOMAIN scope.headers :
                   get_value(heap', cvar'[Main], "request_id") # bytes_decode(scope.headers[i][2])
             /\ \A other \in Scopes :
                   /\ other.type = scope.type
                   /\ StripRequestId(other.headers) = StripRequestId(scope.headers)
                   => /\ configured(mw.config, other)
                      /\ identifiers(mw.config, other, gen) = identifiers(mw.config, scope, gen)]_vars

\* The second request came with a request-id header and the app reads the
\* second generated id.
C22_Witness ==
    /\ req.pc = "app"
    /\ req.processed
    /\ req.n = 1
    /\ \E i \in DOMAIN req.scope.headers :
          req.scope.headers[i] = <<Bytes("x-request-id"), Bytes("h1")>>
    /\ get_value(heap, cvar[Main], "request_id") = ReqIds[2]

\* The values of the inbound headers whose name is header_name in any case.
InboundValues(scope, header_name) ==
    {bytes_decode(scope.headers[i][2]) :
        i \in {j \in DOMAIN scope.headers :
                  bytes_lower(scope.headers[j][1]) = str_encode(Lower(header_name))}}

\* C23: when __call__ serves a scope of a configured type, the
\* correlation_id it enters the scope with is the value of an inbound
\* correlation header, whatever the case of its name, when the request has
\* one, and the correlation-id generator is not called; otherwise it is the
\* generator's next value.
C23_CorrelationFromHeader ==
    [][\A scope \in Scopes :
          Call(Main, scope) /\ configured(mw.config, scope)
          => LET sent == InboundValues(scope, mw.config.correlation_id_header)
             IN  IF sent # {}
                 THEN /\ get_value(heap', cvar'[Main], "correlation_id") \in sent
                      /\ gen'.cid = gen.cid
                 ELSE /\ get_value(heap', cvar'[Main], "correlation_id") = CorIds[gen.cid + 1]
                      /\ gen'.cid = gen.cid + 1]_vars

\* C24: for a request of a configured scope type, while the wrapped app runs
\* enter_context has been called once and exit_context not yet, and the
\* request's identifiers are readable; once __call__ has finished, by the
\* app returning, raising or being cancelled, exit_context has been called
\* once, no scope is open, and get_value is None for every field and get_all
\* is empty in that task.
C24_EnterOnceExitOnce ==
    req.processed
    => /\ req.pc = "app"
          => /\ req.enters = 1 /\ req.exits = 0
             /\ Depth(Main) = 1
             /\ get_value(heap, cvar[Main], "request_id") = req.request_id
             /\ get_value(heap, cvar[Main], "correlation_id") = req.correlation_id
       /\ req.pc = "done"
          => /\ req.how \in Ends
             /\ req.enters = 1 /\ req.exits = 1
             /\ Depth(Main) = 0
             /\ \A k \in HandoffKeys : get_value(heap, cvar[Main], k) = None
             /\ View(Main) = [has |-> TRUE, map |-> EmptyDict]

\* The app was cancelled after it had sent a message, and __call__ has
\* finished: the request's fields are gone.
C24_Witness ==
    /\ req.pc = "done"
    /\ req.processed
    /\ req.how = "cancel"
    /\ Len(req.fwd) = 1
    /\ req.exits = 1
    /\ get_value(heap, cvar[Main], "request_id") = None

\* The headers of a message, none when it has no headers member.
HeadersOf(message) ==
    IF "headers" \in DOMAIN message THEN message.headers ELSE <<>>

\* C25: with add_response_headers enabled and a scope of a configured type,
\* every http.response.start message reaches send with the app's headers
\* followed by x-request-id and x-correlation-id, whose values are the
\* encoded request_id and correlation_id the scope was entered with, and
\* with its other members as they were; every other message, and every
\* message when add_response_headers is disabled, reaches send as it was.
C25_ResponseHeaders ==
    \A i \in DOMAIN req.fwd :
       LET orig == req.fwd[i].orig
           out == req.fwd[i].out
       IN  IF /\ mw.config.add_response_headers
              /\ req.processed
              /\ orig.type = "http.response.start"
           THEN /\ DOMAIN out = DOMAIN orig \cup {"headers"}
                /\ \A k \in DOMAIN orig \ {"headers"} : out[k] = orig[k]
                /\ out.headers =
                      HeadersOf(orig) \o
                         <<<<Bytes("x-request-id"), Bytes(req.request_id)>>,
                           <<Bytes("x-correlation-id"), Bytes(req.correlation_id)>>>>
                /\ req.pc = "app"
                   => /\ Top(Main).exp["request_id"] = req.request_id
                      /\ Top(Main).exp["correlation_id"] = req.correlation_id
           ELSE out = orig

\* A response start that the app sent with one header went out with three,
\* the last one carrying the correlation id of the request's own header.
C25_Witness ==
    /\ req.pc = "app"
    /\ mw.config.add_response_headers
    /\ Len(req.fwd) = 1
    /\ Len(HeadersOf(req.fwd[1].orig)) = 1
    /\ Len(req.fwd[1].out.headers) = 3
    /\ req.fwd[1].out.headers[3] = <<Bytes("x-correlation-id"), Bytes("h1")>>

\* C26: for a scope whose type is not in scope_types, __call__ hands the app
\* the scope and the send it was given: no identifier is generated, the
\* context of the task is untouched when the app is called and when it ends,
\* and every message of the app reaches send as it was.
C26_PassThrough ==
    [][/\ \A scope \in Scopes :
             Call(Main, scope) /\ scope.type \notin mw.config.scope_types
             => /\ gen' = gen
                /\ UNCHANGED <<cvar, heap, scopes, ever>>
                /\ req'.scope = scope
                /\ ~req'.processed /\ ~req'.wrapped
                /\ req'.enters = 0
       /\ req.pc = "app" /\ req.scope.type \notin mw.config.scope_types
          => /\ \A message \in AppMessages(req.scope.type) :
                   AppSend(message) => req'.fwd[Len(req'.fwd)].out = message
             /\ \A how \in Ends :
                   AppEnd(Main, how)
                   => /\ UNCHANGED <<cvar, heap, scopes, ever, gen>>
                      /\ req'.enters = 0 /\ req'.exits = 0]_vars

\* A lifespan scope was served after a request: the app's message went out
\* as it was, and the generators stand where the request left them.
C26_Witness ==
    /\ req.pc = "done"
    /\ req.n = 1
    /\ req.scope.type = "lifespan"
    /\ Len(req.fwd) = 1
    /\ req.fwd[1].out = [type |-> "lifespan.startup.complete"]
    /\ req.enters = 0 /\ req.exits = 0
    /\ gen = req.genBefore
    /\ gen.rid = 1

\* C27: constructing the middleware with an identifier string other than
\* 'contextvars' and 'context_logging' raises ValueError and leaves the
\* process-wide adapter binding, and the middleware the application holds, as
\* they were; constructing it with an adapter instance succeeds and uses and
\* binds that very instance.
C27_UnknownAdapterRejected ==
    [][\A a \in AdapterConfigs : \A add, importable \in BOOLEAN :
          Construct(Config(a, add), importable)
          => /\ a.str /\ a.val \notin {"contextvars", "context_logging"}
                => /\ err' = "ValueError"
                   /\ binding' = binding
                   /\ mw' = mw
             /\ ~a.str
                => /\ err' = "ok"
                   /\ mw'.built
                   /\ mw'.adapter = [cls |-> a.val, obj |-> "given", cm |-> None]
                   /\ binding' = mw'.adapter]_vars

\* The last construction raised ValueError, and the adapter instance an
\* earlier construction bound is still the one bound.
C27_Witness ==
    /\ err = "ValueError"
    /\ binding = [cls |-> "custom", obj |-> "given", cm |-> None]
    /\ mw.built
    /\ mw.adapter = binding

\* C28: when context_logging cannot be imported, ContextLoggingAdapter()
\* raises an ImportError whose message starts "context-logging is required"
\* and yields no adapter object; a middleware construction that asks for
\* that adapter fails with it and neither builds nor binds anything.
C28_MissingDependencyFails ==
    [][/\ ContextLoggingAdapter_init(FALSE).out = "ImportError"
       /\ ContextLoggingAdapter_init(FALSE).msg[1] = "context-logging is required"
       /\ ContextLoggingAdapter_init(FALSE).adapter = NoAdapter
       /\ \A add \in BOOLEAN :
             Construct(Config([str |-> TRUE, val |-> "context_logging"], add), FALSE)
             => /\ err' = "ImportError"
                /\ binding' = binding
                /\ mw' = mw]_vars

\* The only construction so far asked for the context-logging adapter and
\* raised ImportError: there is no middleware and no adapter is bound.
C28_Witness ==
    /\ err = "ImportError"
    /\ ~mw.built
    /\ binding = NoAdapter

\* C29: the adapter is the scope object; an enter_context on it while a
\* scope it opened is active, or after it has closed one, is rejected: it
\* opens no scope and get_all returns afterwards what it returned before.
C29_ReenterRejected ==
    [][\A t \in Tasks : \A initial \in Dicts :
          EnterContext(t, initial) /\ (Depth(t) > 0 \/ ever[t])
          => /\ Len(scopes'[t]) = Depth(t)
             /\ ViewOf(heap', cvar', t) = View(t)]_vars

\* C30: exit_context on a context-logging adapter that holds no Context
\* returns normally and leaves the adapter and the library's contexts as they
\* were, and post_save in a task that runs no unit and whose
\* _current_context is None returns and leaves the task's context and
\* _current_context as they were.
C30_CloseWithoutOpen ==
    [][/\ cl.cm = 0
          => /\ cl_exit_context(cl.cm, lib[Main]).out = "ok"
             /\ CLExit(Main) => lib' = lib /\ cl'.cm = 0 /\ cl'.last = "exit"
       /\ \A t \in Tasks : \A is_err \in BOOLEAN :
             PostSaveIdle(t, is_err) /\ ~cur[t]
             => /\ ViewOf(heap', cvar', t) = View(t)
                /\ cur' = cur
                /\ unit' = unit]_vars

\* exit_context has returned on an adapter that was never entered, and
\* post_save in a task that never ran a unit: nothing is open and nothing
\* was written.
C30_Witness ==
    /\ cl.last = "exit"
    /\ ~cl.entered
    /\ lib[Main] = <<EmptyDict>>
    /\ stray[Main]
    /\ ~served[Main]
    /\ View(Main) = NoMap
    /\ ~cur[Main]

\* C31: on the context-logging adapter, an exit_context that follows an
\* enter_context and any set_value calls leaves the library's contexts as
\* they were before the enter: get_value and get_all return what they
\* returned then, so None and the empty map when nothing was set outside a
\* scope, and the scope entered next reads its own initial map only.
C31_ContextLoggingExitClears ==
    [][/\ CLExit(Main) /\ cl.cm # 0
          => /\ lib'[Main] = cl.prior
             /\ cl'.cm = 0
             /\ cl'.last = "exit"
             /\ cl_get_all(lib'[Main]) = cl_get_all(cl.prior)
             /\ cl.prior = <<EmptyDict>>
                => /\ cl_get_all(lib'[Main]) = EmptyDict
                   /\ \A k \in Keys : cl_get_value(lib'[Main], k) = None
       /\ \A initial \in Dicts :
             CLEnter(Main, initial) /\ cl.last = "exit" /\ lib[Main] = <<EmptyDict>>
             => /\ cl_get_all(lib'[Main]) = initial
                /\ \A k \in Keys : cl_get_value(lib'[Main], k) = DictGet(initial, k)]_vars

\* The adapter was entered with a field, a field was set, and it was exited:
\* the library is back at its empty root context and the field reads None.
C31_Witness ==
    /\ cl.last = "exit"
    /\ cl.initial # EmptyDict
    /\ cl.held
    /\ cl.cm = 0
    /\ cl.prior = <<EmptyDict>>
    /\ lib[Main] = <<EmptyDict>>
    /\ \A k \in Keys : cl_get_value(lib[Main], k) = None

\* C32: an enter_context or an exit_context of one task changes nothing that
\* get_value and get_all return, or raise, in any other task that is running,
\* whether that task has a scope of its own, shares its creator's, or has
\* none.
C32_EnterExitFrame ==
    [][\A t, u \in Tasks :
          /\ t # u
          /\ t \in started
          /\ \/ \E initial \in Dicts : EnterContext(u, initial)
             \/ ExitContext(u)
          => Reads(heap', cvar', t) = Reads(heap, cvar, t)]_vars

\* The first task has closed the scope in which it had set a field; the
\* second task, created inside that scope, still reads the field.
C32_Witness ==
    /\ closed[Main]
    /\ Depth(Main) = 0
    /\ Worker \in started
    /\ base[Worker]
    /\ Depth(Worker) = 0
    /\ get_value(heap, cvar[Worker], "user_id") = FirstVal(Main)
    /\ get_value(heap, cvar[Main], "user_id") = None

\* C33: a task created inside an active scope starts with the reads of its
\* creator, and as long as it has opened no scope of its own its view is a
\* copy: a set_value it makes changes nothing its creator or any other task
\* reads, and a set_value of another task changes nothing it reads.
C33_SpawnedCopy ==
    [][/\ \A p, c \in Tasks :
             Spawn(p, c) /\ Depth(p) > 0
             => Reads(heap', cvar', c) = Reads(heap, cvar, p)
       /\ \A t, u \in Tasks :
             /\ t # u
             /\ t \in started /\ u \in started
             /\ base[u] /\ Depth(u) = 0
             => /\ (\E k \in Keys : \E v \in Vals : SetValue(u, k, v))
                   => Reads(heap', cvar', t) = Reads(heap, cvar, t)
                /\ (\E k \in Keys : \E v \in Vals : SetValue(t, k, v))
                   => Reads(heap', cvar', u) = Reads(heap, cvar, u)]_vars

C35_SetAfterExitIsNoOp ==
    [][\A t \in started :
          Depth(t) = 0 /\ ever[t] /\ ~base[t] /\ Running(t)
          => /\ \A k \in Keys : \A v \in ValsOf(t) :
                   LET s == set_value(heap, cvar[t], k, v)
                   IN  s.out = "ok" /\ get_value(s.heap, cvar[t], k) = None
             /\ \A initial \in Dicts :
                   EnterContext(t, initial)
                   => ViewOf(heap', cvar', t) = [has |-> TRUE, map |-> initial]]_vars

\* C36: when two tasks interleave enter_context and exit_context on one
\* adapter object, no exit_context raises, a task that has entered and not
\* yet exited still has its scope open, whatever the other task has done,
\* and a task that has exited has no scope open.
C36_SharedAdapterExits ==
    \A t \in Tasks :
       /\ cl.calls[t] # "raised"
       /\ cl.calls[t] = "entered" => Len(lib[t]) = 2
       /\ cl.calls[t] = "exited" => Len(lib[t]) = 1

\* C37: enter_context keeps a copy of the dict it is given.  The call leaves
\* the caller's dict as it was and the scope reads that dict's items; and
\* while the scope is the innermost one and the caller still holds the dict,
\* adding, changing or removing a key in it changes nothing that get_value
\* and get_all return, and a set_value inside the scope changes nothing in
\* the caller's dict.
C37_InitialMapCopied ==
    [][\A t \in started :
          /\ EnterFrom(t)
             => /\ heap'[snap'] = heap[snap]
                /\ ViewOf(heap', cvar', t) = [has |-> TRUE, map |-> heap[snap]]
          /\ Depth(t) > 0 /\ Top(t).given
             => /\ (\/ \E k \in Keys : \E v \in Vals : MutateSnap(k, v)
                    \/ \E k \in Keys : DeleteSnap(k))
                   => Reads(heap', cvar', t) = Reads(heap, cvar, t)
                /\ (\E k \in Keys : \E v \in Vals : SetValue(t, k, v))
                   => heap'[snap'] = heap[snap]]_vars

\* A scope was entered with the dict the application holds; since then the
\* application has put a value of its own into the dict and the scope's body
\* has set a field: the scope reads no value of the application's, and the
\* dict does not hold the field's value.
C37_Witness ==
    /\ Depth(Main) > 0
    /\ Top(Main).given
    /\ Top(Main).held
    /\ DictGet(heap[snap], "request_id") \in Vals \ ValsOf(Main)
    /\ get_value(heap, cvar[Main], "request_id") = None
    /\ get_value(heap, cvar[Main], "user_id") = FirstVal(Main)
    /\ DictGet(heap[snap], "user_id") = None

\* C38: one adapter is bound process-wide, and once a middleware has been
\* constructed it is the adapter of the middleware constructed most
\* recently; a middleware that serves a request enters and exits the scope
\* on its own adapter, whichever adapter is bound by then.
C38_LatestAdapterBound ==
    /\ latest.built => binding = latest.adapter
    /\ req.processed
       => /\ req.on = mw.adapter
          /\ req.pc = "done" => req.off = mw.adapter

\* A middleware built with the default adapter has served a request after a
\* second middleware was constructed with an adapter instance of its own:
\* that instance is the one bound, and the request's scope was entered and
\* exited on the first middleware's adapter.
C38_Witness ==
    /\ req.pc = "done"
    /\ req.processed
    /\ mw.adapter.cls = "contextvars"
    /\ latest.adapter = [cls |-> "custom", obj |-> "given", cm |-> None]
    /\ binding = latest.adapter
    /\ req.on = mw.adapter
    /\ req.off = mw.adapter
    /\ Depth(Main) = 0

====
